---- MODULE Spec2Model ----
(***************************************************************************)
(* One run of the Binance RSI + MACD scanner script (src/app.py): the      *)
(* sidebar RSI scanner, the fetch of the selected symbol's candles, the    *)
(* indicator columns, and the four signal-detection blocks that put        *)
(* markers on the chart.                                                   *)
(*                                                                         *)
(* Numbers.  RSI values are integers in thousandths (70 is 70000), so that *)
(* round(x, 2) is a real conversion; Williams %R and prices are integers.  *)
(* pandas' missing value and Python's None are the sentinels NaN and None. *)
(*                                                                         *)
(* Outside the model.  The indicator library `ta` is not part of the       *)
(* source: a payload carries, next to its candles, the RSI and Williams %R *)
(* series the library derives from them (ta_rsi, ta_willr), undefined (NaN)*)
(* over the warm-up of window - 1 candles.  The memoising decorator        *)
(* st.cache_data may replay an earlier result of the same request; every   *)
(* fetch draws its payload independently, which includes that result.      *)
(* The MACD columns, volume, high and low are never read by the scanner or *)
(* by a signal condition and are not carried; a marker is modelled by its  *)
(* candle index (the time column) and the values the conditions read.      *)
(* The sidebar's "Most Traded" list is not modelled: the coin is picked    *)
(* from the watchlist (the default of the radio at line 104).              *)
(***************************************************************************)
EXTENDS Integers, Sequences, FiniteSets, TLC

VARIABLES
    timeframe,              \* line 29: radio over TIMEFRAMES (main chart)
    enable_scanner,         \* line 126: checkbox
    selected_symbol,        \* lines 107, 174
    klines,                 \* what Binance serves for the main chart's request
    pc,                     \* position of the script
    all_symbols,            \* line 135
    symbols_to_scan,        \* line 139
    scan_i,                 \* loop variable i of line 142
    progress,               \* numerator of progress_bar.progress, line 149
    rsi_val,                \* line 143
    scan_vals,              \* history: the rsi_val of every iteration so far
    rsi_above,              \* line 129
    rsi_below,              \* line 129
    selected_from_scanner,  \* line 130
    errors,                 \* st.error messages, lines 56 and 73
    fetch_log,              \* history: one entry per call of fetch_ohlcv
    chart_df,               \* lines 183-184
    latest_price,           \* line 188
    willr_signals,          \* lines 260, 283, 324
    price_signals,          \* lines 284, 325
    sell_price_signals,     \* line 370
    sell_willr_signals,     \* line 370
    buy_price_signals,      \* line 371
    buy_willr_signals,      \* line 371
    fig,                    \* marker traces added to the figure
    exception               \* the uncaught exception that ended the run, or "none"

vars == <<timeframe, enable_scanner, selected_symbol, klines, pc, all_symbols,
          symbols_to_scan, scan_i, progress, rsi_val, scan_vals, rsi_above,
          rsi_below, selected_from_scanner, errors, fetch_log, chart_df,
          latest_price, willr_signals, price_signals, sell_price_signals,
          sell_willr_signals, buy_price_signals, buy_willr_signals, fig,
          exception>>

scanVars == <<all_symbols, symbols_to_scan, scan_i, progress, rsi_val, scan_vals,
              rsi_above, rsi_below, selected_from_scanner>>

chartVars == <<chart_df, latest_price, willr_signals, price_signals,
               sell_price_signals, sell_willr_signals, buy_price_signals,
               buy_willr_signals, fig>>

inputVars == <<timeframe, enable_scanner, klines>>

(***************************************************************************)
(* Bounds of the model.                                                    *)
(***************************************************************************)
\* Candles in a served payload (the slider at line 33 asks for 50 to 500).
FrameLen == 26
\* Trailing candles whose Williams %R and candle shape the inputs vary.
TailLen == 5
\* Symbols of the watchlist whose scanner payload the inputs vary.
NumSymbols == 2

(***************************************************************************)
(* Program constants.                                                      *)
(***************************************************************************)
BINANCE_KLINES == "https://api.binance.com/api/v3/klines"

WATCHLIST == <<"BTCUSDT", "ETHUSDT", "BNBUSDT", "XRPUSDT", "SOLUSDT",
               "ADAUSDT", "DOGEUSDT", "MATICUSDT", "LTCUSDT", "DOTUSDT">>

TIMEFRAMES == {"1m", "5m", "15m", "1h", "4h", "1d"}

MAX_COINS == 100

\* window=14 of RSIIndicator and lbp=14 of WilliamsRIndicator
RSI_WINDOW == 14
WILLR_LBP == 14

KlineColumns == {"time", "open", "high", "low", "close", "volume", "close_time",
                 "qav", "trades", "taker_base", "taker_quote", "ignore"}

IndicatorColumns == {"RSI", "MACD", "MACD_Signal", "MACD_Hist", "WILLR"}

(***************************************************************************)
(* Values.                                                                 *)
(***************************************************************************)
NaN == -1000001
None == -1000002
\* selected_from_scanner = None (line 130) and the selectbox option "None"
NoneSym == "<None>"
NoneOption == "None"

\* an RSI level of the source, in thousandths
Milli(x) == x * 1000

\* Python / pandas comparisons: every comparison with NaN is False
GT(a, b) == a # NaN /\ b # NaN /\ a > b
GE(a, b) == a # NaN /\ b # NaN /\ a >= b
LT(a, b) == a # NaN /\ b # NaN /\ a < b
LE(a, b) == a # NaN /\ b # NaN /\ a <= b

\* range(a, n) as a sequence
Range(a, n) == [k \in 1..(IF n > a THEN n - a ELSE 0) |-> a + k - 1]

\* Series.iloc[a:b] as the set of positions a..b-1
Slice(a, b) == a..(b - 1)

\* Series.min(): missing values are skipped; NaN when nothing is left
SeriesMin(s, pos) ==
    LET vals == {s[k] : k \in pos} \ {NaN}
    IN  IF vals = {} THEN NaN ELSE CHOOSE m \in vals : \A v \in vals : m <= v

\* (series >= level).any()
AnyGE(s, pos, level) == \E k \in pos : GE(s[k], level)

\* round(x, 2) of a value in thousandths: to the nearest hundredth, ties to even
Round2(x) ==
    IF x = NaN THEN NaN
    ELSE LET q == x \div 10
             r == x % 10
         IN  IF r < 5 THEN q * 10
             ELSE IF r > 5 THEN (q + 1) * 10
             ELSE IF q % 2 = 0 THEN q * 10 ELSE (q + 1) * 10

\* truth value of rsi_val in `if rsi_val:`: None and 0.0 are false, NaN is true
Truthy(v) == v # None /\ v # 0

(***************************************************************************)
(* Data frames.                                                            *)
(***************************************************************************)
\* pd.DataFrame(): no columns, no rows
EmptyDataFrame ==
    [columns |-> {}, n |-> 0, open |-> <<>>, close |-> <<>>,
     ta_rsi |-> <<>>, ta_willr |-> <<>>]

\* the frame fetch_ohlcv builds from a served payload
DataFrameOf(p) ==
    [columns |-> KlineColumns, n |-> p.n, open |-> p.open, close |-> p.close,
     ta_rsi |-> p.ta_rsi, ta_willr |-> p.ta_willr]

\* df.empty
IsEmpty(df) == df.n = 0 \/ df.columns = {}

\* the exception of df[col].iloc[-1], or "none"
LastError(df, col) ==
    IF col \notin df.columns THEN "KeyError"
    ELSE IF df.n = 0 THEN "IndexError" ELSE "none"

RSI(df) == df.ta_rsi
WILLR(df) == df.ta_willr

(***************************************************************************)
(* fetch_ohlcv, add_indicators, get_latest_rsi.                            *)
(***************************************************************************)
FetchRaises(symbol, p) ==
    IF p.ok
    THEN [raised |-> FALSE, df |-> DataFrameOf(p), error |-> <<>>]
    ELSE [raised |-> TRUE, df |-> EmptyDataFrame, error |-> <<>>]

\* lines 38-57: one request to BINANCE_KLINES; any exception is reported
\* with st.error and answered with an empty frame
fetch_ohlcv(symbol, p) ==
    IF p.ok
    THEN [raised |-> FALSE, df |-> DataFrameOf(p), error |-> <<>>]
    ELSE [raised |-> FALSE, df |-> EmptyDataFrame, error |-> <<symbol>>]

\* the URLs one call of fetch_ohlcv requests, in order (line 42)
RetrySources == <<BINANCE_KLINES, BINANCE_KLINES>>

FetchSources == <<BINANCE_KLINES>>

\* what one call of fetch_ohlcv did: the requests it made, whether the
\* request succeeded, and whether the call raised or returned an empty frame
FetchEntry(symbol, p) ==
    LET r == fetch_ohlcv(symbol, p)
    IN  [symbol |-> symbol, sources |-> FetchSources, ok |-> p.ok,
         raised |-> r.raised, empty |-> IsEmpty(r.df)]

\* lines 79-91
add_indicators(df) ==
    IF IsEmpty(df) THEN df
    ELSE [df EXCEPT !.columns = @ \cup IndicatorColumns]

\* lines 93-98, on the frame fetch_ohlcv returned
get_latest_rsi(df) ==
    IF IsEmpty(df) THEN None ELSE Round2(RSI(df)[df.n - 1])

(***************************************************************************)
(* Signal conditions.                                                      *)
(***************************************************************************)
GateOpen(tf) == TRUE

\* lines 261, 285, 326, 373
SignalGate(tf) == tf = "15m"

\* lines 263-264
Block1Cond(df, i) ==
    /\ GT(WILLR(df)[i - 1], -20) /\ LE(WILLR(df)[i], -20)
    /\ GT(RSI(df)[i], Milli(69))

\* lines 288-289
Block2Cond(df, i) ==
    /\ GT(RSI(df)[i], Milli(69)) /\ LT(df.close[i], df.close[i - 1])
    /\ GT(WILLR(df)[i - 1], -20) /\ LE(WILLR(df)[i], -20)

\* lines 329-334
Block3Cond(df, i) ==
    /\ AnyGE(RSI(df), Slice(i - 10, i - 4), Milli(70))
    /\ LT(df.close[i], df.close[i - 1])
    /\ GT(WILLR(df)[i - 1], -20) /\ LE(WILLR(df)[i], -20)

SellRsiNowOnly(df, i) == GT(RSI(df)[i], Milli(70))

\* line 385
sell_rsi_ok(df, i) ==
    GT(RSI(df)[i], Milli(70)) \/ AnyGE(RSI(df), Slice(i - 10, i - 4), Milli(70))

\* line 386
sell_price_down(df, i) == LT(df.close[i], df.close[i - 1])

SellWillrBelow(df, i) == LE(WILLR(df)[i], -20)

\* line 387
sell_willr_cross_dn(df, i) == GT(WILLR(df)[i - 1], -20) /\ LE(WILLR(df)[i], -20)

\* line 389
SellCond(df, i) == sell_rsi_ok(df, i) /\ sell_price_down(df, i) /\ sell_willr_cross_dn(df, i)

BuyRsiNoWindow(df, i) ==
    \/ LT(RSI(df)[i], Milli(30))
    \/ (LT(RSI(df)[i - 1], Milli(30)) /\ GE(RSI(df)[i], Milli(30)))

\* lines 397-401
buy_rsi_ok(df, i) ==
    \/ LT(RSI(df)[i], Milli(30))
    \/ (LT(RSI(df)[i - 1], Milli(30)) /\ GE(RSI(df)[i], Milli(30)))
    \/ LE(SeriesMin(RSI(df), Slice(i - 12, i)), Milli(30))

\* line 403
buy_price_up(df, i) == GT(df.close[i], df.open[i]) \/ GE(df.close[i], df.close[i - 1])

\* line 405
buy_willr_cross_up_strict(df, i) == LE(WILLR(df)[i - 1], -80) /\ GT(WILLR(df)[i], -80)

\* line 406
buy_willr_cross_up_window(df, i) ==
    LE(SeriesMin(WILLR(df), Slice(i - 3, i)), -85) /\ GE(WILLR(df)[i], -80)

\* line 407
buy_willr_ok(df, i) == buy_willr_cross_up_strict(df, i) \/ buy_willr_cross_up_window(df, i)

\* line 409
BuyCond(df, i) == buy_rsi_ok(df, i) /\ buy_price_up(df, i) /\ buy_willr_ok(df, i)

\* the candles at which each loop appends, in loop order
Block1Hits(df) == SelectSeq(Range(1, df.n), LAMBDA i : Block1Cond(df, i))
Block2Hits(df) == SelectSeq(Range(1, df.n), LAMBDA i : Block2Cond(df, i))
Block3Hits(df) == SelectSeq(Range(10, df.n), LAMBDA i : Block3Cond(df, i))
SellHits(df) == SelectSeq(Range(12, df.n), LAMBDA i : SellCond(df, i))
BuyHits(df) == SelectSeq(Range(12, df.n), LAMBDA i : BuyCond(df, i))

\* the (time, WILLR, close) tuples appended for the candles hits
WillrMarks(hits, df) ==
    [j \in 1..Len(hits) |-> <<hits[j], WILLR(df)[hits[j]], df.close[hits[j]]>>]

\* the (time, close) tuples appended for the candles hits
PriceMarks(hits, df) == [j \in 1..Len(hits) |-> <<hits[j], df.close[hits[j]]>>]

\* the (time, price) tuples of the unified engine for the candles hits; the
\* marker's height (high * 1.001 or low * 0.999) is not carried
TimeMarks(hits, df) == [j \in 1..Len(hits) |-> <<hits[j]>>]

\* fig.add_trace(go.Scatter(x=[s[0] for s in signals], ...)) under `if signals:`
AddTrace(f, signals, name, yaxis, kind) ==
    IF signals = <<>> THEN f
    ELSE Append(f, [name |-> name, yaxis |-> yaxis, kind |-> kind,
                    x |-> [j \in 1..Len(signals) |-> signals[j][1]]])

(***************************************************************************)
(* Served payloads: the inputs of a run.                                   *)
(***************************************************************************)
\* the request raises (timeout, HTTP error, malformed body)
FailPayload ==
    [ok |-> FALSE, n |-> 0, open |-> <<>>, close |-> <<>>,
     ta_rsi |-> <<>>, ta_willr |-> <<>>]

\* the request succeeds with no klines
NoRowsPayload ==
    [ok |-> TRUE, n |-> 0, open |-> <<>>, close |-> <<>>,
     ta_rsi |-> <<>>, ta_willr |-> <<>>]

\* n flat candles; the indicators are undefined over their warm-up and
\* mid-range after it
NeutralPayload(n) ==
    [ok |-> TRUE, n |-> n,
     open |-> [i \in 0..(n - 1) |-> 100],
     close |-> [i \in 0..(n - 1) |-> 100],
     ta_rsi |-> [i \in 0..(n - 1) |-> IF i < RSI_WINDOW - 1 THEN NaN ELSE Milli(50)],
     ta_willr |-> [i \in 0..(n - 1) |-> IF i < WILLR_LBP - 1 THEN NaN ELSE -50]]

\* candle shapes: 0 flat (open 100, close 100), 1 a drop (open 100, close 99),
\* 2 a lower close with a bullish body (open 98, close 99)
ShapeOpen(shape) == IF shape = 2 THEN 98 ELSE 100
ShapeClose(shape) == IF shape = 0 THEN 100 ELSE 99

SetRsi(p, i, v) == [p EXCEPT !.ta_rsi[i] = v]
SetWillr(p, i, v) == [p EXCEPT !.ta_willr[i] = v]
SetCandle(p, i, shape) ==
    [p EXCEPT !.open[i] = ShapeOpen(shape), !.close[i] = ShapeClose(shape)]

ApplyOverride(p, ov) ==
    IF ov.kind = "rsi" THEN SetRsi(p, ov.idx, ov.val)
    ELSE IF ov.kind = "willr" THEN SetWillr(p, ov.idx, ov.val)
    ELSE IF ov.kind = "candle" THEN SetCandle(p, ov.idx, ov.val)
    ELSE p

\* the last candle
Last == FrameLen - 1

RsiLevels == {Milli(29), Milli(30), Milli(50), Milli(70), Milli(71)}
WillrLevels == {-85, -80, -50, -20, -10}
Shapes == {0, 1, 2}
TailIdx == (FrameLen - TailLen)..Last

\* overbought now, Williams %R falling through -20, lower close: a SELL at Last
SellPayload ==
    SetCandle(SetWillr(SetRsi(NeutralPayload(FrameLen), Last, Milli(71)),
                       Last - 1, -10), Last, 1)

\* oversold one candle ago, Williams %R rising through -80: a BUY at Last
BuyPayload ==
    SetWillr(SetRsi(NeutralPayload(FrameLen), Last - 1, Milli(29)), Last - 1, -85)

\* a pump eight candles ago, a crash two candles ago, a rebound to the top of
\* the range and a last candle that opens on a gap down and closes lower
BothPayload ==
    SetCandle(
        SetWillr(SetWillr(
            SetRsi(SetRsi(NeutralPayload(FrameLen), Last - 8, Milli(71)),
                   Last - 2, Milli(29)),
            Last - 2, -85), Last - 1, -10),
        Last, 2)

BasePayloads == {NeutralPayload(FrameLen), SellPayload, BuyPayload, BothPayload}

Overrides ==
    {[kind |-> "none", idx |-> 0, val |-> 0]}
    \cup {[kind |-> "rsi", idx |-> i, val |-> v] :
              i \in (RSI_WINDOW - 1)..Last, v \in RsiLevels}
    \cup {[kind |-> "willr", idx |-> i, val |-> v] : i \in TailIdx, v \in WillrLevels}
    \cup {[kind |-> "candle", idx |-> i, val |-> v] : i \in TailIdx, v \in Shapes}

\* the scenario of the specification: 20 candles with RSI[14] = 75,
\* close[14] < close[13], WILLR[13] = -15 and WILLR[14] = -22
ScenarioPayload ==
    SetCandle(SetWillr(SetWillr(SetRsi(NeutralPayload(20), 14, Milli(75)),
                                13, -15), 14, -22), 14, 1)

\* every payload that differs from a base payload in at most two cells, and
\* the scenario
Frames ==
    {ApplyOverride(ApplyOverride(b, o1), o2) :
        b \in BasePayloads, o1 \in Overrides, o2 \in Overrides}
    \cup {ScenarioPayload}

\* the payloads of the main chart in a run of the whole script
ChartPayloads == {FailPayload, NoRowsPayload, BothPayload}

\* the watchlist symbols whose scanner payload varies
Symbols == {WATCHLIST[k] : k \in 1..NumSymbols}

\* latest RSI values of a scanned symbol, in thousandths
ScanRsi == {0, 4, 29990, Milli(30), Milli(70), 70004, 70010, Milli(100)}

\* what Binance serves for a scanned symbol
ScanPayloads(sym) ==
    IF sym \in Symbols
    THEN {FailPayload, NoRowsPayload, NeutralPayload(RSI_WINDOW - 1)}
         \cup {SetRsi(NeutralPayload(FrameLen), Last, v) : v \in ScanRsi}
    ELSE {NeutralPayload(FrameLen)}

\* position of a symbol in the watchlist
WatchPos(sym) == CHOOSE k \in 1..Len(WATCHLIST) : WATCHLIST[k] = sym

\* what exchangeInfo may list: duplicate-free lists of Symbols, in the
\* watchlist's order or in the reverse order
PairLists ==
    {l \in UNION {[1..k -> Symbols] : k \in 0..NumSymbols} :
        \/ \A a, b \in 1..Len(l) : a < b => WatchPos(l[a]) < WatchPos(l[b])
        \/ \A a, b \in 1..Len(l) : a < b => WatchPos(l[a]) > WatchPos(l[b])}

\* lines 62-74: the TRADING USDT pairs, or the watchlist when the request fails
fetch_all_usdt_pairs ==
    {[symbols |-> l, error |-> <<>>] : l \in PairLists}
    \cup {[symbols |-> WATCHLIST, error |-> <<"symbols">>]}

\* list[:k]
Take(l, k) == SubSeq(l, 1, IF Len(l) < k THEN Len(l) ELSE k)

(***************************************************************************)
(* The script.                                                             *)
(***************************************************************************)
InitCommon ==
    /\ all_symbols = <<>> /\ symbols_to_scan = <<>> /\ scan_i = 0 /\ progress = 0
    /\ rsi_val = None /\ scan_vals = <<>>
    /\ rsi_above = <<>> /\ rsi_below = <<>>
    /\ selected_from_scanner = NoneSym
    /\ errors = <<>> /\ fetch_log = <<>>
    /\ chart_df = EmptyDataFrame /\ latest_price = None
    /\ willr_signals = <<>> /\ price_signals = <<>>
    /\ sell_price_signals = <<>> /\ sell_willr_signals = <<>>
    /\ buy_price_signals = <<>> /\ buy_willr_signals = <<>>
    /\ fig = <<>> /\ exception = "none"

\* the script at line 125, with the user's choices and the market's data
Init ==
    /\ timeframe \in TIMEFRAMES
    /\ enable_scanner \in BOOLEAN
    /\ selected_symbol = WATCHLIST[1]
    /\ klines \in ChartPayloads
    /\ pc = "scanner"
    /\ InitCommon

\* the script at line 182 on the 15m chart with the scanner off (its default)
InitSignals ==
    /\ timeframe = "15m"
    /\ enable_scanner = FALSE
    /\ selected_symbol = WATCHLIST[1]
    /\ klines \in Frames
    /\ pc = "main_chart"
    /\ InitCommon

\* lines 132-141
ScannerStart ==
    /\ pc = "scanner" /\ enable_scanner
    /\ \E r \in fetch_all_usdt_pairs :
          /\ all_symbols' = r.symbols
          /\ symbols_to_scan' = Take(r.symbols, MAX_COINS)
          /\ errors' = errors \o r.error
    /\ scan_i' = 0
    /\ pc' = "scan_loop"
    /\ UNCHANGED <<inputVars, selected_symbol, progress, rsi_val, scan_vals, rsi_above,
                   rsi_below, selected_from_scanner, fetch_log, chartVars, exception>>

\* line 132 with the checkbox off
ScannerOff ==
    /\ pc = "scanner" /\ ~enable_scanner
    /\ pc' = "select"
    /\ UNCHANGED <<inputVars, selected_symbol, scanVars, errors, fetch_log, chartVars,
                   exception>>

AbortOnEmpty(v) == IF v = None THEN "scan_show" ELSE "scan_loop"

\* where the loop goes after an iteration: nothing in lines 142-149 leaves it
AfterIteration(v) == "scan_loop"

\* lines 144-148
Classify(above, below, sym, v) ==
    IF Truthy(v)
    THEN IF GT(v, Milli(70)) THEN [above |-> Append(above, [Symbol |-> sym, RSI |-> v]), below |-> below]
         ELSE IF LT(v, Milli(30)) THEN [above |-> above, below |-> Append(below, [Symbol |-> sym, RSI |-> v])]
         ELSE [above |-> above, below |-> below]
    ELSE [above |-> above, below |-> below]

\* lines 142-149: one iteration of the scanner loop
ScanStep ==
    /\ pc = "scan_loop" /\ scan_i < Len(symbols_to_scan)
    /\ LET sym == symbols_to_scan[scan_i + 1]
       IN  \E p \in ScanPayloads(sym) :
              LET r == fetch_ohlcv(sym, p)
                  v == get_latest_rsi(r.df)
                  c == Classify(rsi_above, rsi_below, sym, v)
              IN  /\ fetch_log' = Append(fetch_log, FetchEntry(sym, p))
                  /\ errors' = errors \o r.error
                  /\ IF r.raised
                     THEN /\ pc' = "crashed" /\ exception' = "RequestException"
                          /\ UNCHANGED <<scan_i, progress, rsi_val, scan_vals,
                                         rsi_above, rsi_below>>
                     ELSE /\ rsi_val' = v
                          /\ scan_vals' = Append(scan_vals, v)
                          /\ rsi_above' = c.above
                          /\ rsi_below' = c.below
                          /\ progress' = scan_i + 1
                          /\ scan_i' = scan_i + 1
                          /\ pc' = AfterIteration(v)
                          /\ UNCHANGED exception
    /\ UNCHANGED <<inputVars, selected_symbol, all_symbols, symbols_to_scan,
                   selected_from_scanner, chartVars>>

SymbolsOf(list) == {list[k].Symbol : k \in 1..Len(list)}

\* lines 150-170: the loop is over; the two select boxes
ScanShow ==
    /\ pc \in {"scan_loop", "scan_show"}
    /\ pc = "scan_loop" => scan_i = Len(symbols_to_scan)
    /\ \E c1 \in {NoneOption} \cup SymbolsOf(rsi_above),
          c2 \in {NoneOption} \cup SymbolsOf(rsi_below) :
          LET s1 == IF rsi_above # <<>> THEN c1 ELSE selected_from_scanner
          IN  selected_from_scanner' =
                  IF rsi_below # <<>> /\ (s1 = NoneSym \/ s1 = NoneOption)
                  THEN c2 ELSE s1
    /\ pc' = "select"
    /\ UNCHANGED <<inputVars, selected_symbol, all_symbols, symbols_to_scan, scan_i,
                   progress, rsi_val, scan_vals, rsi_above, rsi_below, errors,
                   fetch_log, chartVars, exception>>

\* lines 172-177
FinalSelect ==
    /\ pc = "select"
    /\ selected_symbol' =
           IF selected_from_scanner # NoneSym /\ selected_from_scanner # NoneOption
           THEN selected_from_scanner ELSE selected_symbol
    /\ pc' = "main_chart"
    /\ UNCHANGED <<inputVars, scanVars, errors, fetch_log, chartVars, exception>>

\* line 183
FetchChart ==
    /\ pc = "main_chart"
    /\ LET r == fetch_ohlcv(selected_symbol, klines)
       IN  /\ fetch_log' = Append(fetch_log, FetchEntry(selected_symbol, klines))
           /\ errors' = errors \o r.error
           /\ IF r.raised
              THEN /\ pc' = "crashed" /\ exception' = "RequestException"
                   /\ UNCHANGED chart_df
              ELSE /\ chart_df' = r.df /\ pc' = "add_indicators"
                   /\ UNCHANGED exception
    /\ UNCHANGED <<inputVars, selected_symbol, scanVars, latest_price, willr_signals,
                   price_signals, sell_price_signals, sell_willr_signals,
                   buy_price_signals, buy_willr_signals, fig>>

\* line 184
AddIndicators ==
    /\ pc = "add_indicators"
    /\ chart_df' = add_indicators(chart_df)
    /\ pc' = "latest_price"
    /\ UNCHANGED <<inputVars, selected_symbol, scanVars, errors, fetch_log,
                   latest_price, willr_signals, price_signals, sell_price_signals,
                   sell_willr_signals, buy_price_signals, buy_willr_signals, fig,
                   exception>>

\* the exception of line 188, chart_df["close"].iloc[-1], or "none"
LatestPriceError(df) == LastError(df, "close")

\* lines 186-256: the latest price and the base panels of the figure
LatestPrice ==
    /\ pc = "latest_price"
    /\ LET e == LatestPriceError(chart_df)
       IN  IF e # "none"
           THEN /\ pc' = "crashed" /\ exception' = e /\ UNCHANGED latest_price
           ELSE /\ latest_price' = chart_df.close[chart_df.n - 1]
                /\ pc' = "block1"
                /\ UNCHANGED exception
    /\ UNCHANGED <<inputVars, selected_symbol, scanVars, errors, fetch_log, chart_df,
                   willr_signals, price_signals, sell_price_signals,
                   sell_willr_signals, buy_price_signals, buy_willr_signals, fig>>

\* lines 259-279
SignalBlock1 ==
    /\ pc = "block1"
    /\ LET hits == IF SignalGate(timeframe) THEN Block1Hits(chart_df) ELSE <<>>
           ws == WillrMarks(hits, chart_df)
       IN  /\ willr_signals' = ws
           /\ fig' = AddTrace(fig, ws, "WILLR Signal", "y4", "sell")
    /\ pc' = "block2"
    /\ UNCHANGED <<inputVars, selected_symbol, scanVars, errors, fetch_log, chart_df,
                   latest_price, price_signals, sell_price_signals, sell_willr_signals,
                   buy_price_signals, buy_willr_signals, exception>>

\* lines 282-320
SignalBlock2 ==
    /\ pc = "block2"
    /\ LET hits == IF SignalGate(timeframe) THEN Block2Hits(chart_df) ELSE <<>>
           ws == WillrMarks(hits, chart_df)
           ps == PriceMarks(hits, chart_df)
       IN  /\ willr_signals' = ws
           /\ price_signals' = ps
           /\ fig' = AddTrace(AddTrace(fig, ws, "WILLR Signal", "y4", "sell"),
                              ps, "Price Signal", "y1", "sell")
    /\ pc' = "block3"
    /\ UNCHANGED <<inputVars, selected_symbol, scanVars, errors, fetch_log, chart_df,
                   latest_price, sell_price_signals, sell_willr_signals,
                   buy_price_signals, buy_willr_signals, exception>>

\* lines 323-365
SignalBlock3 ==
    /\ pc = "block3"
    /\ LET hits == IF SignalGate(timeframe) THEN Block3Hits(chart_df) ELSE <<>>
           ws == WillrMarks(hits, chart_df)
           ps == PriceMarks(hits, chart_df)
       IN  /\ willr_signals' = ws
           /\ price_signals' = ps
           /\ fig' = AddTrace(AddTrace(fig, ws, "WILLR Signal", "y4", "sell"),
                              ps, "Price Signal", "y1", "sell")
    /\ pc' = "unified"
    /\ UNCHANGED <<inputVars, selected_symbol, scanVars, errors, fetch_log, chart_df,
                   latest_price, sell_price_signals, sell_willr_signals,
                   buy_price_signals, buy_willr_signals, exception>>

\* lines 370-413
UnifiedEngine ==
    /\ pc = "unified"
    /\ LET sells == IF SignalGate(timeframe) THEN SellHits(chart_df) ELSE <<>>
           buys == IF SignalGate(timeframe) THEN BuyHits(chart_df) ELSE <<>>
       IN  /\ sell_price_signals' = TimeMarks(sells, chart_df)
           /\ sell_willr_signals' = WillrMarks(sells, chart_df)
           /\ buy_price_signals' = TimeMarks(buys, chart_df)
           /\ buy_willr_signals' = WillrMarks(buys, chart_df)
    /\ pc' = "plot"
    /\ UNCHANGED <<inputVars, selected_symbol, scanVars, errors, fetch_log, chart_df,
                   latest_price, willr_signals, price_signals, fig, exception>>

\* lines 415-459
PlotSignals ==
    /\ pc = "plot"
    /\ fig' = AddTrace(AddTrace(AddTrace(AddTrace(fig,
                  sell_willr_signals, "W%R Sell", "y4", "sell"),
                  sell_price_signals, "Sell Signal", "y1", "sell"),
                  buy_willr_signals, "W%R Buy", "y4", "buy"),
                  buy_price_signals, "Buy Signal", "y1", "buy")
    /\ pc' = "done"
    /\ UNCHANGED <<inputVars, selected_symbol, scanVars, errors, fetch_log, chart_df,
                   latest_price, willr_signals, price_signals, sell_price_signals,
                   sell_willr_signals, buy_price_signals, buy_willr_signals, exception>>

\* lines 182-459: the main chart
NextMain ==
    \/ FetchChart
    \/ AddIndicators
    \/ LatestPrice
    \/ SignalBlock1
    \/ SignalBlock2
    \/ SignalBlock3
    \/ UnifiedEngine
    \/ PlotSignals

Next ==
    \/ ScannerStart
    \/ ScannerOff
    \/ ScanStep
    \/ ScanShow
    \/ FinalSelect
    \/ NextMain

\* one run of the script
Spec == Init /\ [][Next]_vars

\* signal detection on the 15m chart, over every payload of Frames
SpecSignals == InitSignals /\ [][NextMain]_vars

(***************************************************************************)
(* Properties.                                                             *)
(***************************************************************************)
Defined(x) == x # NaN

\* the candles of the chart frame
Candles == 0..(chart_df.n - 1)

\* the candles that carry a SELL, a BUY marker of the unified engine
SellIdx == {sell_price_signals[k][1] : k \in 1..Len(sell_price_signals)}
BuyIdx == {buy_price_signals[k][1] : k \in 1..Len(buy_price_signals)}

\* the unified engine has run
DetectionDone == pc \in {"plot", "done"}

\* some defined value of series s at a position of pos satisfies P
SomeIn(s, pos, P(_)) == \E k \in pos : k >= 0 /\ Defined(s[k]) /\ P(s[k])

\* the markers of one kind on one panel at candle i
MarkersAt(yaxis, kind, i) ==
    {<<t, j>> \in (1..Len(fig)) \X (1..FrameLen) :
        /\ fig[t].yaxis = yaxis /\ fig[t].kind = kind
        /\ j <= Len(fig[t].x) /\ fig[t].x[j] = i}

\* C1 as stated: RSI above 70 now or in the window i-10..i-4, a lower close,
\* and Williams %R from >= -20 to < -20
StatedSell(df, i) ==
    /\ i >= 1
    /\ \/ (Defined(RSI(df)[i]) /\ RSI(df)[i] > Milli(70))
       \/ SomeIn(RSI(df), (i - 10)..(i - 4), LAMBDA x : x > Milli(70))
    /\ df.close[i] < df.close[i - 1]
    /\ Defined(WILLR(df)[i - 1]) /\ WILLR(df)[i - 1] >= -20
    /\ Defined(WILLR(df)[i]) /\ WILLR(df)[i] < -20

AmendedSell(df, i) ==
    /\ i >= 1
    /\ \/ (Defined(RSI(df)[i]) /\ RSI(df)[i] > Milli(70))
       \/ SomeIn(RSI(df), (i - 10)..(i - 5), LAMBDA x : x >= Milli(70))
    /\ df.close[i] < df.close[i - 1]
    /\ Defined(WILLR(df)[i - 1]) /\ WILLR(df)[i - 1] > -20
    /\ Defined(WILLR(df)[i]) /\ WILLR(df)[i] <= -20

StatedBuy(df, i) ==
    /\ i >= 1
    /\ \/ (Defined(RSI(df)[i]) /\ RSI(df)[i] < Milli(30))
       \/ (/\ Defined(RSI(df)[i - 1]) /\ RSI(df)[i - 1] < Milli(30)
           /\ Defined(RSI(df)[i]) /\ RSI(df)[i] >= Milli(30))
       \/ SomeIn(RSI(df), (i - 12)..(i - 1), LAMBDA x : x <= Milli(30))
    /\ \/ df.close[i] > df.open[i]
       \/ df.close[i] >= df.close[i - 1]
    /\ \/ (/\ Defined(WILLR(df)[i - 1]) /\ WILLR(df)[i - 1] <= -80
           /\ Defined(WILLR(df)[i]) /\ WILLR(df)[i] > -80)
       \/ (/\ SomeIn(WILLR(df), (i - 3)..(i - 1), LAMBDA x : x <= -85)
           /\ Defined(WILLR(df)[i]) /\ WILLR(df)[i] >= -80)

C3_OneEventPerIndex ==
    pc = "done" =>
        \A yaxis \in {"y1", "y4"}, kind \in {"sell", "buy"}, i \in Candles :
            Cardinality(MarkersAt(yaxis, kind, i)) <= 1

\* C10 (as stated): the unified engine never emits a SELL and a BUY at the
\* same candle.
C10_Exclusive == DetectionDone => SellIdx \cap BuyIdx = {}

\* C10 (amended): the unified engine emits a SELL and a BUY at the same candle
\* i only when close[i-1] > close[i] > open[i], Williams %R was <= -85 at
\* candle i-3 or i-2, above -20 at i-1 and within [-80, -20] at i; a BUY by the
\* strict upward cross of -80 never coincides with a SELL.
C10_Amended ==
    DetectionDone =>
        \A i \in SellIdx \cap BuyIdx :
            /\ chart_df.close[i - 1] > chart_df.close[i]
            /\ chart_df.close[i] > chart_df.open[i]
            /\ SomeIn(WILLR(chart_df), (i - 3)..(i - 2), LAMBDA x : x <= -85)
            /\ WILLR(chart_df)[i - 1] > -20
            /\ WILLR(chart_df)[i] >= -80 /\ WILLR(chart_df)[i] <= -20
            /\ ~buy_willr_cross_up_strict(chart_df, i)

\* a candle with both markers
C10_Witness == pc = "done" /\ SellIdx \cap BuyIdx # {}

(***************************************************************************)
(* The fetch and the scanner.                                              *)
(***************************************************************************)
\* the symbols of the failed fetches, in call order
FailedSymbols(log) ==
    LET failed == SelectSeq(log, LAMBDA e : ~e.ok)
    IN  [k \in 1..Len(failed) |-> failed[k].symbol]

\* the error messages of fetch_ohlcv (line 56), in order
FetchErrors == SelectSeq(errors, LAMBDA m : m # "symbols")

\* C4 (as stated): a fetch whose every source failed ends in the failure
\* AllSourcesExhausted; it does not return a candle sequence.
C4_FailureRaised ==
    \A k \in 1..Len(fetch_log) : ~fetch_log[k].ok => fetch_log[k].raised

\* C4 (amended): when the request to Binance fails, fetch_ohlcv reports one
\* error that names the symbol and returns the empty frame, as a normal return
\* value: nothing is raised, and the caller sees a frame with no candles.
C4_FailureReturnsEmpty ==
    /\ \A k \in 1..Len(fetch_log) :
          /\ ~fetch_log[k].raised
          /\ ~fetch_log[k].ok => fetch_log[k].empty
    /\ FetchErrors = FailedSymbols(fetch_log)
    /\ (pc \in {"add_indicators", "latest_price"} /\ ~klines.ok) =>
           chart_df = EmptyDataFrame

\* the main chart's request failed after a scanner request had failed
C4_Witness ==
    /\ pc = "latest_price" /\ ~klines.ok /\ chart_df = EmptyDataFrame
    /\ Len(fetch_log) = 3 /\ ~fetch_log[1].ok /\ fetch_log[2].ok

\* C5 (as stated): when a source fails the next source is tried.
C5_NextSourceTried ==
    \A k \in 1..Len(fetch_log) : ~fetch_log[k].ok => Len(fetch_log[k].sources) > 1

\* C5 (amended): fetch_ohlcv has one source, the Binance klines endpoint: every
\* call makes exactly one request; when it succeeds the call returns that
\* response's candles (with no source tag), and when it fails no other source
\* is tried and the call returns the empty frame.
C5_SingleSource ==
    /\ \A k \in 1..Len(fetch_log) :
          /\ fetch_log[k].sources = <<BINANCE_KLINES>>
          /\ ~fetch_log[k].ok => fetch_log[k].empty
    /\ (pc = "add_indicators" /\ klines.ok) =>
           /\ chart_df = DataFrameOf(klines)
           /\ chart_df.columns = KlineColumns

\* a fetch that failed, then one that succeeded with candles
C5_Witness ==
    /\ pc = "add_indicators" /\ klines.ok /\ chart_df.n > 0
    /\ Len(fetch_log) = 2 /\ ~fetch_log[1].ok

\* the scanner loop of lines 142-149 on the symbols syms with latest RSI vals
RECURSIVE ScanOf(_, _, _)
ScanOf(syms, vals, k) ==
    IF k = 0 THEN [above |-> <<>>, below |-> <<>>]
    ELSE LET before == ScanOf(syms, vals, k - 1)
         IN  Classify(before.above, before.below, syms[k], vals[k])

\* the positions of the scan whose fetch did not fail
Served == SelectSeq(Range(1, Len(scan_vals) + 1), LAMBDA k : fetch_log[k].ok)

\* C6: a failed fetch never aborts the scan: once the loop is left, every symbol
\* of symbols_to_scan has been fetched and evaluated, in list order; a symbol
\* whose fetch failed has no RSI and is in neither list; and the two lists are
\* those of a scan of the list without the failing symbols.
C6_ScanNeverAborts ==
    (enable_scanner /\ pc \notin {"scanner", "scan_loop"}) =>
        /\ Len(scan_vals) = Len(symbols_to_scan)
        /\ [k \in 1..Len(scan_vals) |-> fetch_log[k].symbol] = symbols_to_scan
        /\ \A k \in 1..Len(scan_vals) :
              ~fetch_log[k].ok =>
                  /\ scan_vals[k] = None
                  /\ symbols_to_scan[k] \notin SymbolsOf(rsi_above) \cup SymbolsOf(rsi_below)
        /\ LET syms == [j \in 1..Len(Served) |-> symbols_to_scan[Served[j]]]
               vals == [j \in 1..Len(Served) |-> scan_vals[Served[j]]]
               want == ScanOf(syms, vals, Len(Served))
           IN  rsi_above = want.above /\ rsi_below = want.below

\* the first symbol failed, the second was served and is overbought
C6_Witness ==
    /\ pc = "select" /\ Len(symbols_to_scan) >= 2
    /\ ~fetch_log[1].ok /\ fetch_log[2].ok
    /\ SymbolsOf(rsi_above) = {symbols_to_scan[2]}

\* C7: an empty candle sequence never causes a failure downstream of the
\* fetch: when the fetch for the selected symbol returned no candles the run
\* ends without an exception.
C7_EmptyNeverFails ==
    (pc \notin {"scanner", "scan_loop", "scan_show", "select", "main_chart"}
        /\ IsEmpty(chart_df)) => exception = "none"

\* C8: after the scanner loop, a symbol whose fetch succeeded with a defined
\* latest RSI r is in rsi_above iff r > 70 and in rsi_below iff r < 30, for every
\* r in [0, 100]; no symbol is in both lists or twice in one.
C8_Thresholds ==
    (enable_scanner /\ pc \notin {"scanner", "scan_loop"}) =>
        /\ \A k \in 1..Len(scan_vals) :
              (scan_vals[k] # None /\ scan_vals[k] # NaN) =>
                  /\ (symbols_to_scan[k] \in SymbolsOf(rsi_above)) <=> (scan_vals[k] > Milli(70))
                  /\ (symbols_to_scan[k] \in SymbolsOf(rsi_below)) <=> (scan_vals[k] < Milli(30))
        /\ SymbolsOf(rsi_above) \cap SymbolsOf(rsi_below) = {}
        /\ Cardinality(SymbolsOf(rsi_above)) = Len(rsi_above)
        /\ Cardinality(SymbolsOf(rsi_below)) = Len(rsi_below)

\* C9: on every timeframe other than 15m all signal lists stay empty and no
\* marker is added to the figure.
C9_TimeframeGate ==
    timeframe # "15m" =>
        /\ willr_signals = <<>> /\ price_signals = <<>>
        /\ sell_price_signals = <<>> /\ sell_willr_signals = <<>>
        /\ buy_price_signals = <<>> /\ buy_willr_signals = <<>>
        /\ fig = <<>>

\* the whole chart flow has run on the 1h chart over candles that carry a SELL
\* and a BUY setup
C9_Witness ==
    /\ timeframe = "1h" /\ pc = "done" /\ klines = BothPayload
    /\ SellCond(chart_df, Last) /\ BuyCond(chart_df, Last)

====
